---- MODULE Spec2Model ----
(***************************************************************************)
(* Chronos scheduler: the assignment ledger (backend/src/routes/schedule.ts)*)
(* and the scenario committer (backend/src/routes/scenarios.ts) over the    *)
(* Assignment / Car / Shop / Scenario tables of the initial migration.      *)
(*                                                                          *)
(* Vocabulary: the specification's work item / resource / period /         *)
(* assigned / unassigned are the code's car / shop / month / 'scheduled' / *)
(* 'unscheduled'.  Timestamps (createdAt, updatedAt, HistoryAction          *)
(* .timestamp) are never read by the handlers modelled and are left out.   *)
(***************************************************************************)
EXTENDS Integers, Sequences, FiniteSets, TLC

(***************************************************************************)
(* Bounds of the model.                                                     *)
(***************************************************************************)
MaxCar == 2
MaxShop == 2
MaxDate == 2
MaxId == 3
MaxProc == 2
MaxReq == 3

\* schedule.ts:16
MAX_HISTORY == 50

(***************************************************************************)
(* Master data.  Car and Shop rows are owned by the registry routes; the    *)
(* handlers modelled here only look them up.  Request parameters range over *)
(* one id more than exists, so that lookups can miss.                       *)
(***************************************************************************)
Dates == 1..MaxDate
CarIds == 1..(MaxCar + 1)
ShopIds == 1..(MaxShop + 1)
ScenarioIds == {1}
ScenarioReqIds == {1, 2}

\* Scenario.data.assignments: lists of {carId, shopId, month}.
Tuple(c, s, m) == [carId |-> c, shopId |-> s, month |-> m]
ScenarioData(valid, plan) == [exists |-> TRUE, valid |-> valid, assignments |-> plan]
NoScenario == [exists |-> FALSE, valid |-> FALSE, assignments |-> <<>>]
\* data without an assignments array ("data || {}", scenarios.ts:87)
InvalidData == ScenarioData(FALSE, <<>>)
SamplePlans ==
    { <<Tuple(1, 1, 1), Tuple(2, 1, 1), Tuple(2, 2, 1)>>,
      <<Tuple(1, 2, 2), Tuple(MaxCar + 1, 1, 1)>> }

VARIABLES
    assignments,  \* rows of table Assignment: [id, carId, shopId, month]
    nextId,       \* the SERIAL sequence behind Assignment.id
    carStatus,    \* Car.status of every row of table Car
    shopCapacity, \* Shop.capacity of every row of table Shop
    undoStack,    \* schedule.ts:14
    redoStack,    \* schedule.ts:15
    scenarios,    \* Scenario.data of every scenario id
    res,          \* the response of the last request served past its checks
    procs,        \* the requests in flight, one slot per concurrent request
    started       \* how many requests have been taken up by the slots

vars == <<assignments, nextId, carStatus, shopCapacity, undoStack, redoStack,
          scenarios, res, procs, started>>

\* The ids of the Car and Shop rows.
Cars == DOMAIN carStatus
Shops == DOMAIN shopCapacity

\* Shop.capacity (INTEGER NOT NULL)
capacity(shopId) == shopCapacity[shopId]

\* What the schedule handlers read and write, as one value.
State ==
    [assignments |-> assignments, nextId |-> nextId, carStatus |-> carStatus,
     undoStack |-> undoStack, redoStack |-> redoStack]

(***************************************************************************)
(* The store (Prisma over PostgreSQL).                                     *)
(***************************************************************************)
Row(id, c, s, m) == [id |-> id, carId |-> c, shopId |-> s, month |-> m]

\* prisma.assignment.findUnique({ where: { carId_month } })
FindByCarMonth(A, c, m) == {a \in A : a.carId = c /\ a.month = m}

\* prisma.assignment.findUnique({ where: { id } })
FindById(A, id) == {a \in A : a.id = id}

\* prisma.assignment.count({ where: { shopId, month } })
CountShopMonth(A, s, m) == Cardinality({a \in A : a.shopId = s /\ a.month = m})

\* prisma.assignment.count({ where: { carId } })
CountCar(A, c) == Cardinality({a \in A : a.carId = c})

\* Mutant: no unique index on (carId, month).
CanCreateNoUnique(A, c, s, m) == c \in Cars /\ s \in Shops

\* Mutant: the unique index is on (carId, shopId, month).
CanCreateUniquePerShop(A, c, s, m) ==
    /\ c \in Cars
    /\ s \in Shops
    /\ {a \in FindByCarMonth(A, c, m) : a.shopId = s} = {}

\* prisma.assignment.create: the insert is accepted when both foreign keys
\* resolve and the unique index Assignment_carId_month_key has no such row.
CanCreate(A, c, s, m) ==
    /\ c \in Cars
    /\ s \in Shops
    /\ FindByCarMonth(A, c, m) = {}

\* prisma.assignment.delete({ where: { id } }) throws when no row has the id.
CanDelete(A, id) == FindById(A, id) # {}

(***************************************************************************)
(* Responses.  A handler is a function of the state and the request that    *)
(* yields the state it leaves and the response it sends.                    *)
(***************************************************************************)
Response(op, err, warning, data, S) ==
    [op |-> op, err |-> err, warning |-> warning, data |-> data,
     undoStackSize |-> Len(S.undoStack), redoStackSize |-> Len(S.redoStack)]

Result(S, response) == [st |-> S, res |-> response]

\* createError(...) thrown by a handler's own checks, before any write.
Reject(S, op, err) == Result(S, Response(op, err, FALSE, <<>>, S))

\* An error thrown by a store call and rethrown by the handler's catch.
StoreError(S, op) == Result(S, Response(op, "StoreError", FALSE, <<>>, S))

Rejections == {"NotFound", "DuplicateAssignment", "EmptyHistory", "InvalidScenarioData"}

(***************************************************************************)
(* History (schedule.ts:14-27).                                             *)
(***************************************************************************)
HistoryAction(type, a) == [type |-> type, assignment |-> a]

\* Mutant: the redo stack survives a new action.
addToHistoryKeepRedo(S, action) ==
    LET pushed == Append(S.undoStack, action)
    IN  [S EXCEPT !.undoStack = IF Len(pushed) > MAX_HISTORY THEN Tail(pushed) ELSE pushed]

\* Mutant: on overflow the newest action is dropped instead of the oldest.
addToHistoryDropNewest(S, action) ==
    LET pushed == Append(S.undoStack, action)
    IN  [S EXCEPT !.undoStack = IF Len(pushed) > MAX_HISTORY
                                THEN SubSeq(pushed, 1, MAX_HISTORY) ELSE pushed,
                  !.redoStack = <<>>]

\* addToHistory: push, shift when over MAX_HISTORY, clear the redo stack.
addToHistory(S, action) ==
    LET pushed == Append(S.undoStack, action)
    IN  [S EXCEPT !.undoStack = IF Len(pushed) > MAX_HISTORY THEN Tail(pushed) ELSE pushed,
                  !.redoStack = <<>>]

(***************************************************************************)
(* POST /api/schedule/assign (schedule.ts:98-175).                          *)
(***************************************************************************)
\* Mutant: the count before the insert compared as if it were the count after.
isOverCapacityStrict(monthAssignments, cap) == monthAssignments > cap

\* schedule.ts:139, on the count taken before the insert
isOverCapacity(monthAssignments, cap) == monthAssignments >= cap

\* Mutant: no duplicate check.
assignChecksNoDuplicate(S, carId, shopId, month) ==
    IF carId \notin Cars \/ shopId \notin Shops THEN "NotFound" ELSE "ok"

\* Mutant: a full shop turns the request down.
assignChecksCapacityBlocks(S, carId, shopId, month) ==
    IF carId \notin Cars \/ shopId \notin Shops
    THEN "NotFound"
    ELSE IF FindByCarMonth(S.assignments, carId, month) # {}
    THEN "DuplicateAssignment"
    ELSE IF CountShopMonth(S.assignments, shopId, month) >= capacity(shopId)
    THEN "OverCapacity"
    ELSE "ok"

\* Mutant: the shop is not looked up.
assignChecksNoShop(S, carId, shopId, month) ==
    IF carId \notin Cars
    THEN "NotFound"
    ELSE IF FindByCarMonth(S.assignments, carId, month) # {}
    THEN "DuplicateAssignment"
    ELSE "ok"

\* The checks before the insert (schedule.ts:108-129): the error thrown, or
\* "ok".  The required-field check of line 102 is left out: every request
\* modelled names a car, a shop and a month.
assignChecks(S, carId, shopId, month) ==
    IF carId \notin Cars
    THEN "NotFound"
    ELSE IF shopId \notin Shops
    THEN "NotFound"
    ELSE IF FindByCarMonth(S.assignments, carId, month) # {}
    THEN "DuplicateAssignment"
    ELSE "ok"

assign(S, carId, shopId, month) ==
    LET err == assignChecks(S, carId, shopId, month)
        monthAssignments == CountShopMonth(S.assignments, shopId, month)
        assignment == Row(S.nextId, carId, shopId, month)
    IN  IF err # "ok"
        THEN Reject(S, "assign", err)
        ELSE IF ~CanCreate(S.assignments, carId, shopId, month)
        THEN StoreError(S, "assign")
        ELSE LET S1 == [S EXCEPT !.assignments = @ \cup {assignment},
                                 !.nextId = @ + 1,
                                 !.carStatus[carId] = "scheduled"]
                 S2 == addToHistory(S1, HistoryAction("create", assignment))
             IN  Result(S2, Response("assign", "ok",
                            isOverCapacity(monthAssignments, capacity(shopId)),
                            <<assignment>>, S2))

(***************************************************************************)
(* GET /api/schedule/utilization (schedule.ts:232-267), one shop's entry.   *)
(***************************************************************************)
utilization(S, shopId, month) ==
    LET assigned == CountShopMonth(S.assignments, shopId, month)
    IN  [shopId |-> shopId, capacity |-> capacity(shopId), assigned |-> assigned,
         isOverCapacity |-> assigned > capacity(shopId)]

(***************************************************************************)
(* DELETE /api/schedule/unassign/:id (schedule.ts:181-226).                 *)
(***************************************************************************)
\* The outcome of store calls: whether they went through, and the state left.
Outcome(ok, S) == [ok |-> ok, st |-> S]

\* Mutant: the status is never reset.
deleteAssignmentKeepStatus(S, a) ==
    IF ~CanDelete(S.assignments, a.id)
    THEN [ok |-> FALSE, st |-> S]
    ELSE [ok |-> TRUE,
          st |-> [S EXCEPT !.assignments = @ \ FindById(S.assignments, a.id)]]

\* Mutant: the status is reset whatever the car still holds.
deleteAssignmentAlwaysReset(S, a) ==
    IF ~CanDelete(S.assignments, a.id)
    THEN [ok |-> FALSE, st |-> S]
    ELSE [ok |-> TRUE,
          st |-> [S EXCEPT !.assignments = @ \ FindById(S.assignments, a.id),
                           !.carStatus[a.carId] = "unscheduled"]]

\* Delete the row, count the car's remaining rows, reset the status on zero
\* (schedule.ts:201-217; the same text at 285-299 and 357-370).  A delete of
\* a missing id throws and nothing after it runs.
deleteAssignment(S, a) ==
    IF ~CanDelete(S.assignments, a.id)
    THEN Outcome(FALSE, S)
    ELSE LET rest == S.assignments \ FindById(S.assignments, a.id)
             otherAssignments == CountCar(rest, a.carId)
         IN  Outcome(TRUE,
                 [S EXCEPT !.assignments = rest,
                           !.carStatus[a.carId] =
                               IF otherAssignments = 0 THEN "unscheduled" ELSE @])

\* Mutant: the re-insert leaves the status alone.
createAssignmentKeepStatus(S, a) ==
    IF ~CanCreate(S.assignments, a.carId, a.shopId, a.month)
    THEN [ok |-> FALSE, st |-> S]
    ELSE [ok |-> TRUE,
          st |-> [S EXCEPT !.assignments = @ \cup {Row(S.nextId, a.carId, a.shopId, a.month)},
                           !.nextId = @ + 1]]

\* Insert a row with the snapshot's carId, shopId and month under a fresh id
\* and mark the car scheduled (schedule.ts:302-313; the same text at
\* 343-354).  A rejected insert throws and nothing after it runs.
createAssignment(S, a) ==
    IF ~CanCreate(S.assignments, a.carId, a.shopId, a.month)
    THEN Outcome(FALSE, S)
    ELSE Outcome(TRUE,
             [S EXCEPT !.assignments = @ \cup {Row(S.nextId, a.carId, a.shopId, a.month)},
                       !.nextId = @ + 1,
                       !.carStatus[a.carId] = "scheduled"])

\* The response after the store calls of unassign, undo or redo.
Settled(op, out) ==
    Result(out.st, Response(op, IF out.ok THEN "ok" ELSE "StoreError", FALSE, <<>>, out.st))

unassign(S, assignmentId) ==
    IF FindById(S.assignments, assignmentId) = {}
    THEN Reject(S, "unassign", "NotFound")
    ELSE LET assignment == CHOOSE a \in S.assignments : a.id = assignmentId
             S1 == addToHistory(S, HistoryAction("delete", assignment))
         IN  Settled("unassign", deleteAssignment(S1, assignment))

(***************************************************************************)
(* POST /api/schedule/undo and /redo (schedule.ts:273-382).  The stacks are *)
(* updated first (279-280, 337-338); a store call that throws afterwards    *)
(* leaves them updated.                                                     *)
(***************************************************************************)
Top(stack) == stack[Len(stack)]
Pop(stack) == SubSeq(stack, 1, Len(stack) - 1)

\* Mutant: undo clears the redo stack before its push.
undoClearingRedo(S) ==
    IF Len(S.undoStack) = 0
    THEN Reject(S, "undo", "EmptyHistory")
    ELSE LET action == Top(S.undoStack)
             S1 == [S EXCEPT !.undoStack = Pop(@),
                             !.redoStack = <<action>>]
         IN  IF action.type = "create"
             THEN Settled("undo", deleteAssignment(S1, action.assignment))
             ELSE Settled("undo", createAssignment(S1, action.assignment))

\* Mutant: an undo with nothing to undo is answered as a success.
undoEmptyOk(S) ==
    IF Len(S.undoStack) = 0
    THEN Result(S, Response("undo", "ok", FALSE, <<>>, S))
    ELSE LET action == Top(S.undoStack)
             S1 == [S EXCEPT !.undoStack = Pop(@),
                             !.redoStack = Append(@, action)]
         IN  IF action.type = "create"
             THEN Settled("undo", deleteAssignment(S1, action.assignment))
             ELSE Settled("undo", createAssignment(S1, action.assignment))

\* Mutant: undo copies the top action onto the redo stack and leaves it on
\* the undo stack.
undoKeepingTop(S) ==
    IF Len(S.undoStack) = 0
    THEN Reject(S, "undo", "EmptyHistory")
    ELSE LET action == Top(S.undoStack)
             S1 == [S EXCEPT !.redoStack = Append(@, action)]
         IN  IF action.type = "create"
             THEN Settled("undo", deleteAssignment(S1, action.assignment))
             ELSE Settled("undo", createAssignment(S1, action.assignment))

undo(S) ==
    IF Len(S.undoStack) = 0
    THEN Reject(S, "undo", "EmptyHistory")
    ELSE LET action == Top(S.undoStack)
             S1 == [S EXCEPT !.undoStack = Pop(@),
                             !.redoStack = Append(@, action)]
         IN  IF action.type = "create"
             THEN Settled("undo", deleteAssignment(S1, action.assignment))
             ELSE Settled("undo", createAssignment(S1, action.assignment))

redo(S) ==
    IF Len(S.redoStack) = 0
    THEN Reject(S, "redo", "EmptyHistory")
    ELSE LET action == Top(S.redoStack)
             S1 == [S EXCEPT !.redoStack = Pop(@),
                             !.undoStack = Append(@, action)]
         IN  IF action.type = "create"
             THEN Settled("redo", createAssignment(S1, action.assignment))
             ELSE Settled("redo", deleteAssignment(S1, action.assignment))

\* Mutant: canUndo asks for two actions on the undo stack.
historyOffByOne(S) ==
    [undoStackSize |-> Len(S.undoStack), redoStackSize |-> Len(S.redoStack),
     canUndo |-> Len(S.undoStack) > 1, canRedo |-> Len(S.redoStack) > 0]

\* GET /api/schedule/history (schedule.ts:388-398)
history(S) ==
    [undoStackSize |-> Len(S.undoStack), redoStackSize |-> Len(S.redoStack),
     canUndo |-> Len(S.undoStack) > 0, canRedo |-> Len(S.redoStack) > 0]

(***************************************************************************)
(* POST /api/scenarios/:id/apply (scenarios.ts:296-362) and the scenario    *)
(* rows it reads (scenarios.ts:76-159).                                     *)
(***************************************************************************)
\* Mutant: a tuple that is skipped puts the row found on the list returned.
RECURSIVE applyTransactionReportSkipped(_, _, _)
applyTransactionReportSkipped(plan, i, tx) ==
    IF i > Len(plan) \/ ~tx.ok
    THEN tx
    ELSE LET t == plan[i]
             A == tx.st.assignments
             existing == FindByCarMonth(A, t.carId, t.month)
         IN  IF existing # {}
             THEN applyTransactionReportSkipped(plan, i + 1,
                      [tx EXCEPT !.created = Append(@, CHOOSE a \in existing : TRUE)])
             ELSE IF ~CanCreate(A, t.carId, t.shopId, t.month)
             THEN [tx EXCEPT !.ok = FALSE]
             ELSE LET newAssignment == Row(tx.st.nextId, t.carId, t.shopId, t.month)
                  IN  applyTransactionReportSkipped(plan, i + 1,
                          [ok |-> TRUE,
                           st |-> [tx.st EXCEPT !.assignments = @ \cup {newAssignment},
                                                !.nextId = @ + 1,
                                                !.carStatus[t.carId] = "scheduled"],
                           created |-> Append(tx.created, newAssignment)])

\* Mutant: a tuple whose (carId, month) is taken moves the row to its shop.
RECURSIVE applyTransactionUpsert(_, _, _)
applyTransactionUpsert(plan, i, tx) ==
    IF i > Len(plan) \/ ~tx.ok
    THEN tx
    ELSE LET t == plan[i]
             A == tx.st.assignments
             existing == FindByCarMonth(A, t.carId, t.month)
         IN  IF existing # {}
             THEN applyTransactionUpsert(plan, i + 1,
                      [tx EXCEPT !.st.assignments =
                          (@ \ existing) \cup
                              {[a EXCEPT !.shopId =
                                    IF t.shopId \in Shops THEN t.shopId ELSE @] :
                                   a \in existing}])
             ELSE IF ~CanCreate(A, t.carId, t.shopId, t.month)
             THEN [tx EXCEPT !.ok = FALSE]
             ELSE LET newAssignment == Row(tx.st.nextId, t.carId, t.shopId, t.month)
                  IN  applyTransactionUpsert(plan, i + 1,
                          [ok |-> TRUE,
                           st |-> [tx.st EXCEPT !.assignments = @ \cup {newAssignment},
                                                !.nextId = @ + 1,
                                                !.carStatus[t.carId] = "scheduled"],
                           created |-> Append(tx.created, newAssignment)])

\* The transaction body (scenarios.ts:316-352) from tuple i on; tx carries
\* the state as the transaction sees it and the rows created so far.  A
\* create that throws ends the loop with ok = FALSE.
RECURSIVE applyTransaction(_, _, _)
applyTransaction(plan, i, tx) ==
    IF i > Len(plan) \/ ~tx.ok
    THEN tx
    ELSE LET t == plan[i]
             A == tx.st.assignments
         IN  IF FindByCarMonth(A, t.carId, t.month) # {}
             THEN applyTransaction(plan, i + 1, tx)
             ELSE IF ~CanCreate(A, t.carId, t.shopId, t.month)
             THEN [tx EXCEPT !.ok = FALSE]
             ELSE LET newAssignment == Row(tx.st.nextId, t.carId, t.shopId, t.month)
                  IN  applyTransaction(plan, i + 1,
                          [ok |-> TRUE,
                           st |-> [tx.st EXCEPT !.assignments = @ \cup {newAssignment},
                                                !.nextId = @ + 1,
                                                !.carStatus[t.carId] = "scheduled"],
                           created |-> Append(tx.created, newAssignment)])

\* Mutant: the writes made before a failing insert stay.
applyNoRollback(S, scenario) ==
    IF ~scenario.exists
    THEN Reject(S, "apply", "NotFound")
    ELSE IF ~scenario.valid
    THEN Reject(S, "apply", "InvalidScenarioData")
    ELSE LET tx == applyTransaction(scenario.assignments, 1,
                                    [ok |-> TRUE, st |-> S, created |-> <<>>])
         IN  IF ~tx.ok
             THEN StoreError(tx.st, "apply")
             ELSE Result(tx.st, Response("apply", "ok", FALSE, tx.created, tx.st))

\* scenario is the row findUnique returns (NoScenario when there is none).
apply(S, scenario) ==
    IF ~scenario.exists
    THEN Reject(S, "apply", "NotFound")
    ELSE IF ~scenario.valid
    THEN Reject(S, "apply", "InvalidScenarioData")
    ELSE LET tx == applyTransaction(scenario.assignments, 1,
                                    [ok |-> TRUE, st |-> S, created |-> <<>>])
         IN  IF ~tx.ok
             THEN StoreError(S, "apply")
             ELSE Result(tx.st, Response("apply", "ok", FALSE, tx.created, tx.st))

\* findUnique({ where: { id: scenarioId } })
FindScenario(scenarioId) ==
    IF scenarioId \in ScenarioIds THEN scenarios[scenarioId] ELSE NoScenario

(***************************************************************************)
(* POST /api/scenarios/evaluate (scenarios.ts:166-290).  A DateTime is a     *)
(* day number; calendar months are numbered on, the odd ones DaysPerMonth   *)
(* days long and the even ones a day shorter, and month 1 starts on day 1.  *)
(* A month sent in a request body is the ISO text of such a day.            *)
(* Percentages are kept in hundredths, as the rounding to two decimals      *)
(* leaves them.                                                             *)
(***************************************************************************)
DaysPerMonth == 2

\* The days of a long month and the short month after it.
DaysPerPair == 2 * DaysPerMonth - 1

\* Date.getDate(): the day of the month, from 1
DayOfMonth(date) ==
    LET r == (date - 1) % DaysPerPair
    IN  IF r < DaysPerMonth THEN r + 1 ELSE r - DaysPerMonth + 1

\* a.month.toISOString().substring(0, 7) of a committed row
ISOMonth(date) ==
    LET r == (date - 1) % DaysPerPair
    IN  2 * ((date - 1) \div DaysPerPair) + (IF r < DaysPerMonth THEN 1 ELSE 2)

\* a.month.substring(0, 7) of a proposed tuple
StringMonth(month) ==
    LET r == (month - 1) % DaysPerPair
    IN  2 * ((month - 1) \div DaysPerPair) + (IF r < DaysPerMonth THEN 1 ELSE 2)

\* new Date(year, month, day) and Date.setMonth: the day-th day from the
\* first of the month, which lies in a later month when the month is
\* shorter than that.
DateOf(month, day) ==
    ((month - 1) \div 2) * DaysPerPair
        + (IF month % 2 = 1 THEN 1 ELSE DaysPerMonth + 1) + day - 1

\* new Date(now.getFullYear(), now.getMonth() + 1, 1).toISOString()
\* .substring(0, 7): local midnight of the first of next month, read in UTC;
\* east of Greenwich that instant is still the last day of this month.
NextMonth(now) == IF now.east THEN ISOMonth(now.date) ELSE ISOMonth(now.date) + 1

\* Math.round(x * 100) / 100 of x = num / den * 100, in hundredths
RoundedPercent(num, den) == (2 * num * 10000 + den) \div (2 * den)

\* findMany: the rows in id order
RECURSIVE RowsById(_)
RowsById(A) ==
    IF A = {}
    THEN <<>>
    ELSE LET a == CHOOSE x \in A : \A y \in A : x.id <= y.id
         IN  <<a>> \o RowsById(A \ {a})

\* The keys of a Map in insertion order, given the keys in the order set.
RECURSIVE MapKeys(_)
MapKeys(keys) ==
    IF keys = <<>>
    THEN <<>>
    ELSE LET front == MapKeys(SubSeq(keys, 1, Len(keys) - 1))
             last == keys[Len(keys)]
         IN  IF \E i \in DOMAIN front : front[i] = last
             THEN front ELSE Append(front, last)

CountOf(keys, k) == Cardinality({i \in DOMAIN keys : keys[i] = k})

NoSlot == 0

\* Mutant: an overload is counted from the capacity itself.
overloadFromCapacity(total, cap) == IF total > cap THEN total - cap + 1 ELSE 0

\* scenarios.ts:221-226, one month's overload
overload(total, cap) == IF total > cap THEN total - cap ELSE 0

\* Mutant: a shop filled to its capacity exactly is red.
statusRedAtCapacity(maxTotal, cap) ==
    IF maxTotal >= cap
    THEN "red"
    ELSE IF maxTotal * 100 >= 80 * cap THEN "yellow" ELSE "green"

\* Mutant: a shop filled to its capacity exactly is green.
statusGreenAtCapacity(maxTotal, cap) ==
    IF maxTotal > cap
    THEN "red"
    ELSE IF maxTotal * 100 >= 80 * cap /\ maxTotal < cap THEN "yellow" ELSE "green"

\* scenarios.ts:243-253: utilizationPercent = maxTotal / capacity * 100
\* compared with 80, on capacities above zero
status(maxTotal, cap) ==
    IF maxTotal > cap
    THEN "red"
    ELSE IF maxTotal * 100 >= 80 * cap THEN "yellow" ELSE "green"

\* The loop over monthlyData.entries() (scenarios.ts:212-231) from entry i on.
RECURSIVE scanMonths(_, _, _, _, _, _)
scanMonths(keys, current, scenario, cap, i, acc) ==
    IF i > Len(keys)
    THEN acc
    ELSE LET total == CountOf(current, keys[i]) + CountOf(scenario, keys[i])
             over == overload(total, cap)
         IN  scanMonths(keys, current, scenario, cap, i + 1,
                 [maxTotal |-> IF total > acc.maxTotal THEN total ELSE acc.maxTotal,
                  maxOverload |-> IF over > acc.maxOverload THEN over ELSE acc.maxOverload,
                  earliestSlot |-> IF total < cap /\ acc.earliestSlot = NoSlot
                                   THEN keys[i] ELSE acc.earliestSlot])

\* counts.current + counts.scenario of one shop's monthlyData entry
\* (scenarios.ts:189-213): the committed rows and the proposed tuples of the
\* shop under the month key.
monthlyTotal(currentAssignments, body, shopId, monthKey) ==
    Cardinality({a \in currentAssignments :
                    a.shopId = shopId /\ ISOMonth(a.month) = monthKey})
        + Cardinality({i \in DOMAIN body :
                          body[i].shopId = shopId /\ StringMonth(body[i].month) = monthKey})

\* One shop's FitResult (scenarios.ts:187-267).
fitResult(shopId, currentAssignments, body, now) ==
    LET cap == capacity(shopId)
        mine == SelectSeq(currentAssignments, LAMBDA a : a.shopId = shopId)
        theirs == SelectSeq(body, LAMBDA a : a.shopId = shopId)
        current == [i \in DOMAIN mine |-> ISOMonth(mine[i].month)]
        scenario == [i \in DOMAIN theirs |-> StringMonth(theirs[i].month)]
        keys == MapKeys(current \o scenario)
        acc == scanMonths(keys, current, scenario, cap, 1,
                          [maxTotal |-> 0, maxOverload |-> 0, earliestSlot |-> NoSlot])
    IN  [shopId |-> shopId,
         capacity |-> cap,
         currentAssigned |-> Len(mine),
         scenarioAssigned |-> Len(theirs),
         totalAssigned |-> acc.maxTotal,
         utilizationPercent |-> RoundedPercent(acc.maxTotal, cap),
         status |-> status(acc.maxTotal, cap),
         overload |-> acc.maxOverload,
         earliestSlot |-> IF acc.earliestSlot = NoSlot
                          THEN NextMonth(now) ELSE acc.earliestSlot]

RECURSIVE Sum(_, _)
Sum(f, D) ==
    IF D = {} THEN 0 ELSE LET d == CHOOSE x \in D : TRUE IN f[d] + Sum(f, D \ {d})

\* Mutant: the score is the fraction of green shops, not the percentage.
fitScoreAsFraction(greenCount, shopCount) ==
    IF shopCount > 0 THEN (2 * greenCount * 100 + shopCount) \div (2 * shopCount) ELSE 0

\* scenarios.ts:271 and 277, in hundredths
fitScore(greenCount, shopCount) ==
    IF shopCount > 0 THEN RoundedPercent(greenCount, shopCount) ELSE 0

\* Mutant: the request wipes the undo stack.
evaluateDroppingHistory(S, body, now) ==
    Result([S EXCEPT !.undoStack = <<>>], Response("evaluate", "ok", FALSE, <<>>, S))

\* body is the request's assignments array, now the clock and its zone.
evaluate(S, body, now) ==
    LET currentAssignments == RowsById(S.assignments)
        fitResults == [s \in Shops |-> fitResult(s, currentAssignments, body, now)]
        with(st) == {s \in Shops : fitResults[s].status = st}
        greenCount == Cardinality(with("green"))
    IN  Result(S, Response("evaluate", "ok", FALSE,
            <<[fitScore |-> fitScore(greenCount, Cardinality(Shops)),
               totalOverload |-> Sum([s \in Shops |-> fitResults[s].overload], Shops),
               shops |-> fitResults,
               summary |-> [green |-> greenCount,
                            yellow |-> Cardinality(with("yellow")),
                            red |-> Cardinality(with("red"))]]>>, S))

(***************************************************************************)
(* GET /api/analytics/forecast (analytics routes, 175-244).  Instants are    *)
(* taken to the day, and the clock's date is the same in UTC as in the       *)
(* server's zone.                                                            *)
(***************************************************************************)
\* "parseInt(req.query.months) || 6"
DefaultMonths == 6

\* "sixMonthsAgo.setMonth(sixMonthsAgo.getMonth() - 6)"
WindowMonths == 6

\* Date.setMonth(getMonth() + delta): the same day of the month delta months on
setMonth(date, delta) == DateOf(ISOMonth(date) + delta, DayOfMonth(date))

\* findMany({ where: { month: { gte: sixMonthsAgo } } })
historicalAssignments(S, now) ==
    {a \in S.assignments : a.month >= setMonth(now.date, -WindowMonths)}

\* Math.round(num / den), halves up
Rounded(num, den) == (2 * num + den) \div (2 * den)

\* Mutant: a shop at 80 percent exactly is still good.
forecastStatusStrict(projected, cap) ==
    IF projected > cap
    THEN "over"
    ELSE IF projected * 10 > cap * 8 THEN "near" ELSE "good"

\* projected > capacity ? 'over' : projected >= capacity * 0.8 ? 'near' : 'good'
forecastStatus(projected, cap) ==
    IF projected > cap
    THEN "over"
    ELSE IF projected * 10 >= cap * 8 THEN "near" ELSE "good"

\* The loop "for (let i = 0; i < months; i++)" from date current on.
RECURSIVE forecastData(_, _, _, _)
forecastData(current, months, projected, cap) ==
    IF months <= 0
    THEN <<>>
    ELSE LET next == setMonth(current, 1)
         IN  <<[month |-> ISOMonth(next),
                projected |-> projected,
                capacity |-> cap,
                utilizationPercent |-> RoundedPercent(projected, cap),
                status |-> forecastStatus(projected, cap)]>>
                 \o forecastData(next, months - 1, projected, cap)

\* months is the query parameter as parseInt reads it (0 when it is missing).
forecast(S, months, now) ==
    LET horizon == IF months = 0 THEN DefaultMonths ELSE months
        historical == historicalAssignments(S, now)
        entry(s) ==
            LET mine == {a \in historical : a.shopId = s}
                total == Cardinality(mine)
                size == Cardinality({ISOMonth(a.month) : a \in mine})
            IN  [shopId |-> s,
                 avgMonthlyAssignments |->
                     IF size > 0 THEN Rounded(total * 100, size) ELSE 0,
                 forecast |-> forecastData(now.date, horizon,
                                           IF size > 0 THEN Rounded(total, size) ELSE 0,
                                           capacity(s))]
    IN  Result(S, Response("forecast", "ok", FALSE, <<[s \in Shops |-> entry(s)]>>, S))

(***************************************************************************)
(* The sequential system: requests are served one at a time, each handler   *)
(* running to completion.  A request turned down by the handler's own       *)
(* checks leaves no trace, res included.                                    *)
(***************************************************************************)
Serve(out) ==
    /\ assignments' = out.st.assignments
    /\ nextId' = out.st.nextId
    /\ carStatus' = out.st.carStatus
    /\ undoStack' = out.st.undoStack
    /\ redoStack' = out.st.redoStack
    /\ res' = IF out.res.err \in Rejections THEN res ELSE out.res
    /\ UNCHANGED <<scenarios, procs, started, shopCapacity>>

Assign(carId, shopId, month) == Serve(assign(State, carId, shopId, month))
Unassign(assignmentId) == Serve(unassign(State, assignmentId))
Undo == Serve(undo(State))
Redo == Serve(redo(State))
Apply(scenarioId) == Serve(apply(State, FindScenario(scenarioId)))
History == Serve(Result(State, Response("history", "ok", FALSE, <<history(State)>>, State)))

\* POST /api/scenarios and PUT /api/scenarios/:id (scenarios.ts:76-132)
SaveScenario(scenarioId, data) ==
    /\ scenarios' = [scenarios EXCEPT ![scenarioId] = data]
    /\ UNCHANGED <<assignments, nextId, carStatus, undoStack, redoStack, res,
                   procs, started, shopCapacity>>

\* DELETE /api/scenarios/:id (scenarios.ts:138-159)
DeleteScenario(scenarioId) ==
    /\ scenarios[scenarioId].exists
    /\ scenarios' = [scenarios EXCEPT ![scenarioId] = NoScenario]
    /\ UNCHANGED <<assignments, nextId, carStatus, undoStack, redoStack, res,
                   procs, started, shopCapacity>>

NoResponse ==
    [op |-> "none", err |-> "ok", warning |-> FALSE, data |-> <<>>,
     undoStackSize |-> 0, redoStackSize |-> 0]

\* A request slot: where the handler stands (pc), its request and its locals.
NoRow == Row(0, 0, 0, 0)
Idle ==
    [pc |-> "idle", op |-> "none", carId |-> 0, shopId |-> 0, month |-> 0,
     id |-> 0, a |-> NoRow, n |-> 0, plan |-> <<>>, i |-> 0,
     pending |-> {}, touched |-> {}, created |-> <<>>, res |-> NoResponse]
Procs == 1..MaxProc

Init ==
    /\ assignments = {}
    /\ nextId = 1
    /\ carStatus = [c \in 1..MaxCar |-> "unscheduled"]
    /\ shopCapacity = [s \in 1..MaxShop |-> s]
    /\ undoStack = <<>>
    /\ redoStack = <<>>
    /\ scenarios = [i \in ScenarioIds |-> NoScenario]
    /\ res = NoResponse
    /\ procs = [p \in Procs |-> Idle]
    /\ started = 0

\* The id sequence is capped at MaxId.
IdsLeft == nextId' <= MaxId + 1

Next ==
    \/ \E c \in CarIds, s \in ShopIds, m \in Dates : Assign(c, s, m) /\ IdsLeft
    \/ \E id \in 1..(MaxId + 1) : Unassign(id)
    \/ Undo /\ IdsLeft
    \/ Redo /\ IdsLeft
    \/ \E id \in ScenarioReqIds : Apply(id) /\ IdsLeft
    \/ \E id \in ScenarioIds, plan \in SamplePlans :
          SaveScenario(id, ScenarioData(TRUE, plan))
    \/ \E id \in ScenarioIds : SaveScenario(id, InvalidData)
    \/ \E id \in ScenarioIds : DeleteScenario(id)

Spec == Init /\ [][Next]_vars

(***************************************************************************)
(* A long run of the same handlers, for the history cap: one client assigns *)
(* car 1 to shop 1 month after month (the month numbered like the row it    *)
(* will get, so that every assign succeeds), and while the undo stack is     *)
(* about full it also unassigns the newest row, undoes and redoes; it asks *)
(* for the state of the history at any time.                                *)
(***************************************************************************)
CapIdsLeft == nextId' <= MAX_HISTORY + 4
NearCap == Len(undoStack) >= MAX_HISTORY - 1

CapNext ==
    \/ Assign(1, 1, nextId) /\ CapIdsLeft
    \/ NearCap /\ Unassign(nextId - 1)
    \/ NearCap /\ Undo /\ CapIdsLeft
    \/ Redo /\ CapIdsLeft
    \/ History

SpecCap == Init /\ [][CapNext]_vars

(***************************************************************************)
(* The concurrent system.  A handler runs on Node's single thread up to     *)
(* each await; the store call it awaits takes effect on its own, and other  *)
(* requests' steps come in between.  A step below is one store call         *)
(* together with the synchronous code that follows it; the code that        *)
(* touches the stacks is a step of its own where a store call separates it  *)
(* from the one before.  The reads of the Car and Shop rows (static here)   *)
(* are taken together with the read that follows them.                      *)
(*                                                                          *)
(* apply runs its statements in one transaction (READ COMMITTED): its       *)
(* inserts and status writes are pending until the commit, it sees          *)
(* committed rows and its own, an insert on a key another open transaction  *)
(* has inserted waits for that transaction, and so does a status write on a *)
(* car another open transaction has written.                                *)
(***************************************************************************)
Others(p) == Procs \ {p}

\* Mutant: an insert does not wait for the open transaction that holds its key.
ReservedRowsIgnored(p) == {}

ReservedRows(p) == UNION {procs[q].pending : q \in Others(p)}
LockedCars(p) == UNION {procs[q].touched : q \in Others(p)}

At(p, pc) == procs[p].pc = pc
Goto(p, slot) == procs' = [procs EXCEPT ![p] = slot] /\ UNCHANGED res

\* The response is sent and the slot is free again.
Finish(p, response) ==
    /\ procs' = [procs EXCEPT ![p] = [Idle EXCEPT !.res = response]]
    /\ res' = IF response.err \in Rejections THEN res ELSE response

Begin(p) == At(p, "idle") /\ started < MaxReq /\ started' = started + 1

\* schedule.ts:98-106
BeginAssign(p, c, s, m) ==
    /\ Begin(p)
    /\ Goto(p, [Idle EXCEPT !.pc = "assign_find", !.op = "assign",
                            !.carId = c, !.shopId = s, !.month = m])
    /\ UNCHANGED <<assignments, nextId, carStatus, undoStack, redoStack, scenarios,
                   shopCapacity>>

\* schedule.ts:108-129
AssignFind(p) ==
    LET q == procs[p]
        err == assignChecks(State, q.carId, q.shopId, q.month)
    IN  /\ At(p, "assign_find")
        /\ IF err # "ok"
           THEN Finish(p, Reject(State, "assign", err).res)
           ELSE Goto(p, [q EXCEPT !.pc = "assign_count"])
        /\ UNCHANGED <<assignments, nextId, carStatus, undoStack, redoStack,
                       scenarios, started,
                       shopCapacity>>

\* schedule.ts:131-139
AssignCount(p) ==
    LET q == procs[p]
    IN  /\ At(p, "assign_count")
        /\ Goto(p, [q EXCEPT !.pc = "create",
                             !.n = CountShopMonth(assignments, q.shopId, q.month)])
        /\ UNCHANGED <<assignments, nextId, carStatus, undoStack, redoStack,
                       scenarios, started,
                       shopCapacity>>

\* prisma.assignment.create of assign (schedule.ts:142-152), undo (302-308)
\* and redo (343-349)
Create(p) ==
    LET q == procs[p]
        row == Row(nextId, q.carId, q.shopId, q.month)
    IN  /\ At(p, "create")
        /\ FindByCarMonth(ReservedRows(p), q.carId, q.month) = {}
        /\ IF ~CanCreate(assignments, q.carId, q.shopId, q.month)
           THEN /\ Finish(p, StoreError(State, q.op).res)
                /\ UNCHANGED <<assignments, nextId>>
           ELSE /\ assignments' = assignments \cup {row}
                /\ nextId' = nextId + 1
                /\ Goto(p, [q EXCEPT !.pc = "schedule", !.a = row])
        /\ UNCHANGED <<carStatus, undoStack, redoStack, scenarios, started,
                       shopCapacity>>

\* prisma.car.update to 'scheduled' of assign (schedule.ts:155-158), undo
\* (310-313) and redo (351-354); undo and redo respond after it.
Schedule(p) ==
    LET q == procs[p]
    IN  /\ At(p, "schedule")
        /\ q.carId \notin LockedCars(p)
        /\ carStatus' = [carStatus EXCEPT ![q.carId] = "scheduled"]
        /\ IF q.op = "assign"
           THEN Goto(p, [q EXCEPT !.pc = "history"])
           ELSE Finish(p, Response(q.op, "ok", FALSE, <<>>, State))
        /\ UNCHANGED <<assignments, nextId, undoStack, redoStack, scenarios, started,
                       shopCapacity>>

\* schedule.ts:160-171
AssignHistory(p) ==
    LET q == procs[p]
        S2 == addToHistory(State, HistoryAction("create", q.a))
    IN  /\ At(p, "history")
        /\ undoStack' = S2.undoStack
        /\ redoStack' = S2.redoStack
        /\ Finish(p, Response("assign", "ok",
                              isOverCapacity(q.n, capacity(q.shopId)), <<q.a>>, S2))
        /\ UNCHANGED <<assignments, nextId, carStatus, scenarios, started,
                       shopCapacity>>

\* schedule.ts:181-183
BeginUnassign(p, id) ==
    /\ Begin(p)
    /\ Goto(p, [Idle EXCEPT !.pc = "unassign_find", !.op = "unassign", !.id = id])
    /\ UNCHANGED <<assignments, nextId, carStatus, undoStack, redoStack, scenarios,
                   shopCapacity>>

\* schedule.ts:185-192
UnassignFind(p) ==
    LET q == procs[p]
    IN  /\ At(p, "unassign_find")
        /\ IF FindById(assignments, q.id) = {}
           THEN Finish(p, Reject(State, "unassign", "NotFound").res)
           ELSE LET a == CHOOSE a \in assignments : a.id = q.id
                IN  Goto(p, [q EXCEPT !.pc = "unassign_history", !.a = a,
                                      !.carId = a.carId, !.shopId = a.shopId,
                                      !.month = a.month])
        /\ UNCHANGED <<assignments, nextId, carStatus, undoStack, redoStack,
                       scenarios, started,
                       shopCapacity>>

\* schedule.ts:194-199
UnassignHistory(p) ==
    LET q == procs[p]
        S1 == addToHistory(State, HistoryAction("delete", q.a))
    IN  /\ At(p, "unassign_history")
        /\ undoStack' = S1.undoStack
        /\ redoStack' = S1.redoStack
        /\ Goto(p, [q EXCEPT !.pc = "delete"])
        /\ UNCHANGED <<assignments, nextId, carStatus, scenarios, started,
                       shopCapacity>>

\* prisma.assignment.delete of unassign (schedule.ts:202-204), undo (285-287)
\* and redo (357-359)
Delete(p) ==
    LET q == procs[p]
    IN  /\ At(p, "delete")
        /\ IF ~CanDelete(assignments, q.a.id)
           THEN /\ Finish(p, StoreError(State, q.op).res)
                /\ UNCHANGED assignments
           ELSE /\ assignments' = assignments \ FindById(assignments, q.a.id)
                /\ Goto(p, [q EXCEPT !.pc = "count"])
        /\ UNCHANGED <<nextId, carStatus, undoStack, redoStack, scenarios, started,
                       shopCapacity>>

\* prisma.assignment.count by car and the test on it (schedule.ts:207-212,
\* 290-294, 361-365)
Count(p) ==
    LET q == procs[p]
        otherAssignments == CountCar(assignments, q.a.carId)
    IN  /\ At(p, "count")
        /\ IF otherAssignments = 0
           THEN Goto(p, [q EXCEPT !.pc = "reset", !.n = otherAssignments])
           ELSE Finish(p, Response(q.op, "ok", FALSE, <<>>, State))
        /\ UNCHANGED <<assignments, nextId, carStatus, undoStack, redoStack,
                       scenarios, started,
                       shopCapacity>>

\* prisma.car.update to 'unscheduled' (schedule.ts:213-216, 295-298, 366-369)
Reset(p) ==
    LET q == procs[p]
    IN  /\ At(p, "reset")
        /\ q.a.carId \notin LockedCars(p)
        /\ carStatus' = [carStatus EXCEPT ![q.a.carId] = "unscheduled"]
        /\ Finish(p, Response(q.op, "ok", FALSE, <<>>, State))
        /\ UNCHANGED <<assignments, nextId, undoStack, redoStack, scenarios, started,
                       shopCapacity>>

\* schedule.ts:273-284, 300-301
BeginUndo(p) ==
    /\ Begin(p)
    /\ IF Len(undoStack) = 0
       THEN /\ Finish(p, Reject(State, "undo", "EmptyHistory").res)
            /\ UNCHANGED <<undoStack, redoStack>>
       ELSE LET action == Top(undoStack)
                a == action.assignment
            IN  /\ undoStack' = Pop(undoStack)
                /\ redoStack' = Append(redoStack, action)
                /\ Goto(p, [Idle EXCEPT
                                !.pc = IF action.type = "create" THEN "delete" ELSE "create",
                                !.op = "undo", !.a = a, !.carId = a.carId,
                                !.shopId = a.shopId, !.month = a.month])
    /\ UNCHANGED <<assignments, nextId, carStatus, scenarios,
                   shopCapacity>>

\* schedule.ts:331-342, 355-356
BeginRedo(p) ==
    /\ Begin(p)
    /\ IF Len(redoStack) = 0
       THEN /\ Finish(p, Reject(State, "redo", "EmptyHistory").res)
            /\ UNCHANGED <<undoStack, redoStack>>
       ELSE LET action == Top(redoStack)
                a == action.assignment
            IN  /\ redoStack' = Pop(redoStack)
                /\ undoStack' = Append(undoStack, action)
                /\ Goto(p, [Idle EXCEPT
                                !.pc = IF action.type = "create" THEN "create" ELSE "delete",
                                !.op = "redo", !.a = a, !.carId = a.carId,
                                !.shopId = a.shopId, !.month = a.month])
    /\ UNCHANGED <<assignments, nextId, carStatus, scenarios,
                   shopCapacity>>

\* scenarios.ts:296-298
BeginApply(p, scenarioId) ==
    /\ Begin(p)
    /\ Goto(p, [Idle EXCEPT !.pc = "apply_find", !.op = "apply", !.id = scenarioId])
    /\ UNCHANGED <<assignments, nextId, carStatus, undoStack, redoStack, scenarios,
                   shopCapacity>>

TxPc(plan, i) == IF i > Len(plan) THEN "tx_commit" ELSE "tx_find"

\* scenarios.ts:300-316
ApplyFind(p) ==
    LET q == procs[p]
        scenario == FindScenario(q.id)
    IN  /\ At(p, "apply_find")
        /\ IF ~scenario.exists
           THEN Finish(p, Reject(State, "apply", "NotFound").res)
           ELSE IF ~scenario.valid
           THEN Finish(p, Reject(State, "apply", "InvalidScenarioData").res)
           ELSE Goto(p, [q EXCEPT !.plan = scenario.assignments, !.i = 1,
                                  !.pc = TxPc(scenario.assignments, 1)])
        /\ UNCHANGED <<assignments, nextId, carStatus, undoStack, redoStack,
                       scenarios, started,
                       shopCapacity>>

\* scenarios.ts:319-329
TxFind(p) ==
    LET q == procs[p]
        t == q.plan[q.i]
    IN  /\ At(p, "tx_find")
        /\ IF FindByCarMonth(assignments \cup q.pending, t.carId, t.month) # {}
           THEN Goto(p, [q EXCEPT !.i = @ + 1, !.pc = TxPc(q.plan, q.i + 1)])
           ELSE Goto(p, [q EXCEPT !.pc = "tx_create"])
        /\ UNCHANGED <<assignments, nextId, carStatus, undoStack, redoStack,
                       scenarios, started,
                       shopCapacity>>

\* scenarios.ts:330-341; an insert that throws rolls the transaction back.
TxCreate(p) ==
    LET q == procs[p]
        t == q.plan[q.i]
        newAssignment == Row(nextId, t.carId, t.shopId, t.month)
    IN  /\ At(p, "tx_create")
        /\ FindByCarMonth(ReservedRows(p), t.carId, t.month) = {}
        /\ IF ~CanCreate(assignments \cup q.pending, t.carId, t.shopId, t.month)
           THEN /\ Finish(p, StoreError(State, "apply").res)
                /\ UNCHANGED nextId
           ELSE /\ nextId' = nextId + 1
                /\ Goto(p, [q EXCEPT !.pc = "tx_schedule",
                                     !.pending = @ \cup {newAssignment},
                                     !.created = Append(@, newAssignment)])
        /\ UNCHANGED <<assignments, carStatus, undoStack, redoStack, scenarios, started,
                       shopCapacity>>

\* scenarios.ts:343-348
TxSchedule(p) ==
    LET q == procs[p]
        t == q.plan[q.i]
    IN  /\ At(p, "tx_schedule")
        /\ t.carId \notin LockedCars(p)
        /\ Goto(p, [q EXCEPT !.touched = @ \cup {t.carId}, !.i = @ + 1,
                             !.pc = TxPc(q.plan, q.i + 1)])
        /\ UNCHANGED <<assignments, nextId, carStatus, undoStack, redoStack,
                       scenarios, started,
                       shopCapacity>>

\* scenarios.ts:351-358: the commit and the response.
TxCommit(p) ==
    LET q == procs[p]
    IN  /\ At(p, "tx_commit")
        /\ assignments' = assignments \cup q.pending
        /\ carStatus' = [c \in Cars |->
                            IF c \in q.touched THEN "scheduled" ELSE carStatus[c]]
        /\ Finish(p, Response("apply", "ok", FALSE, q.created, State))
        /\ UNCHANGED <<nextId, undoStack, redoStack, scenarios, started,
                       shopCapacity>>

\* POST /api/scenarios (scenarios.ts:76-98): a first save of the scenario.
CreateScenario(scenarioId, data) ==
    /\ ~scenarios[scenarioId].exists
    /\ \A p \in Procs : At(p, "idle")
    /\ started = 0
    /\ SaveScenario(scenarioId, data)

ConcNext ==
    \/ \E id \in ScenarioIds, plan \in SamplePlans :
          CreateScenario(id, ScenarioData(TRUE, plan))
    \/ \E p \in Procs :
          \/ \E c \in CarIds, s \in ShopIds, m \in Dates : BeginAssign(p, c, s, m)
          \/ AssignFind(p)
          \/ AssignCount(p)
          \/ Create(p) /\ IdsLeft
          \/ Schedule(p)
          \/ AssignHistory(p)
          \/ \E id \in 1..(MaxId + 1) : BeginUnassign(p, id)
          \/ UnassignFind(p)
          \/ UnassignHistory(p)
          \/ Delete(p)
          \/ Count(p)
          \/ Reset(p)
          \/ BeginUndo(p)
          \/ BeginRedo(p)
          \/ \E id \in ScenarioReqIds : BeginApply(p, id)
          \/ ApplyFind(p)
          \/ TxFind(p)
          \/ TxCreate(p) /\ IdsLeft
          \/ TxSchedule(p)
          \/ TxCommit(p)

SpecConc == Init /\ [][ConcNext]_vars

(***************************************************************************)
(* The evaluator and the forecast on their own: a ledger drawn from a       *)
(* family of fills of shop 1 (capacity SmallCapacity or BigCapacity; one    *)
(* car per row, the rows of the first month spread over its days, some cars *)
(* holding a row in the second month too) with shop 2 (capacity 1) empty,   *)
(* or an empty ledger with no Shop row at all; evaluate requests proposing  *)
(* tuples for both months of shop 1 and for shop 2, and forecast requests   *)
(* for some months ahead at several dates.  One request is served per       *)
(* ledger, and the slot keeps it beside its response.                       *)
(***************************************************************************)
SmallCapacity == 5
BigCapacity == 50
MaxCommitted == 41
MaxOtherMonth == 2
MaxProposed == 11
MaxMonths == 3

EvalCommitted == {n \in 0..MaxCommitted : n <= SmallCapacity + 1 \/ n >= MaxCommitted - 3}

\* Row i of a ledger whose first n rows are of the first month.
LedgerRow(n, i) ==
    IF i <= n
    THEN Row(i, i, 1, 1 + (i % DaysPerMonth))
    ELSE Row(i, i - n, 1, DaysPerMonth + 1)

Ledger(n, j) == {LedgerRow(n, i) : i \in 1..(n + j)}

Proposed(k, l, z) ==
    [i \in 1..k |-> Tuple(i, 1, DaysPerMonth)] \o
        [i \in 1..z |-> Tuple(i, 2, 1)] \o
            [i \in 1..l |-> Tuple(i, 1, DaysPerMonth + 1)]

\* The same tuples, the second month's first.
SecondMonthFirst(k) ==
    <<Tuple(1, 1, DaysPerMonth + 1)>> \o [i \in 1..k |-> Tuple(i, 1, DaysPerMonth)]

EvalBodies ==
    {Proposed(k, l, z) : k \in 0..MaxProposed, l \in 0..1, z \in 0..2} \cup
        {SecondMonthFirst(k) : k \in 1..2}
EvalNow == [date : {1, DaysPerMonth + 1}, east : BOOLEAN]

\* The state after n + j assigns (or, with no Shop row, after none) and the
\* save of a scenario.
EvalInit ==
    \E cap \in {0, SmallCapacity, BigCapacity}, n \in EvalCommitted, j \in 0..MaxOtherMonth :
        /\ cap = 0 => n + j = 0
        /\ assignments = Ledger(n, j)
        /\ nextId = n + j + 1
        /\ carStatus = [c \in 1..MaxCommitted |->
                           IF c <= n \/ c <= j THEN "scheduled" ELSE "unscheduled"]
        /\ shopCapacity = [s \in (IF cap = 0 THEN {} ELSE 1..MaxShop) |->
                              IF s = 1 THEN cap ELSE 1]
        /\ undoStack = [i \in 1..(n + j) |-> HistoryAction("create", LedgerRow(n, i))]
        /\ redoStack = <<>>
        /\ scenarios = [i \in ScenarioIds |-> ScenarioData(TRUE, Proposed(1, 1, 1))]
        /\ res = NoResponse
        /\ procs = [p \in Procs |-> Idle]
        /\ started = 0

Evaluate(p, body, now) ==
    LET out == evaluate(State, body, now)
    IN  /\ started = 0
        /\ started' = 1
        /\ procs' = [procs EXCEPT ![p] = [Idle EXCEPT !.op = "evaluate", !.plan = body,
                                                      !.n = now, !.res = out.res]]
        /\ res' = out.res
        /\ assignments' = out.st.assignments
        /\ nextId' = out.st.nextId
        /\ carStatus' = out.st.carStatus
        /\ undoStack' = out.st.undoStack
        /\ redoStack' = out.st.redoStack
        /\ UNCHANGED <<shopCapacity, scenarios>>

\* The clock of a forecast request: the days of the ledger's two months,
\* and days of the months in which those leave the window.
ForecastNow ==
    [date : {1, DaysPerMonth, DaysPerMonth + 1} \cup
                {DateOf(WindowMonths + m, 1) : m \in 1..3} \cup
                {DateOf(WindowMonths + 1, DaysPerMonth)},
     east : {FALSE}]

Forecast(p, months, now) ==
    LET out == forecast(State, months, now)
    IN  /\ started = 0
        /\ started' = 1
        /\ procs' = [procs EXCEPT ![p] = [Idle EXCEPT !.op = "forecast", !.i = months,
                                                      !.n = now, !.res = out.res]]
        /\ res' = out.res
        /\ assignments' = out.st.assignments
        /\ nextId' = out.st.nextId
        /\ carStatus' = out.st.carStatus
        /\ undoStack' = out.st.undoStack
        /\ redoStack' = out.st.redoStack
        /\ UNCHANGED <<shopCapacity, scenarios>>

EvalNext ==
    \/ \E body \in EvalBodies, now \in EvalNow : Evaluate(1, body, now)
    \/ \E months \in 0..MaxMonths, now \in ForecastNow : Forecast(1, months, now)

SpecEval == EvalInit /\ [][EvalNext]_vars

(***************************************************************************)
(* Properties.                                                              *)
(***************************************************************************)
Succeeded(op) == res.op = op /\ res.err = "ok"
HasAssignment(c) == CountCar(assignments, c) > 0

\* C1: in every state reached by any interleaving of the steps of assign,
\* unassign, undo, redo and apply requests, the ledger holds at most one
\* Assignment for each (carId, month).
C1_OnePerCarMonth ==
    \A a, b \in assignments : (a.carId = b.carId /\ a.month = b.month) => a = b

\* Two assigns raced for one (carId, month): both passed the duplicate check,
\* and the store turned the second insert down.
C1_Witness ==
    /\ res.op = "assign"
    /\ res.err = "StoreError"
    /\ \E p \in Procs : procs[p].res = res

\* C2 (as amended): in every state where an Assignment exists for
\* (carId, month), an assign of that car and month to an existing shop fails
\* with DuplicateAssignment and leaves ledger, statuses and both stacks as
\* they were.
C2_DuplicateRejected ==
    \A c \in Cars, s \in Shops, m \in Dates :
        FindByCarMonth(assignments, c, m) # {} =>
            LET out == assign(State, c, s, m)
            IN  out.res.err = "DuplicateAssignment" /\ out.st = State

\* C2 as stated, for every resource id a request can name.
C2_DuplicateRejectedAnyShop ==
    \A c \in CarIds, s \in ShopIds, m \in Dates :
        FindByCarMonth(assignments, c, m) # {} =>
            LET out == assign(State, c, s, m)
            IN  out.res.err = "DuplicateAssignment" /\ out.st = State

\* A car holds two months; assigning it again to either is a duplicate.
C2_Witness ==
    \E c \in Cars :
        /\ \A m \in Dates : FindByCarMonth(assignments, c, m) # {}
        /\ \A s \in Shops, m \in Dates :
               assign(State, c, s, m).res.err = "DuplicateAssignment"

\* C3: an assign of an existing car with no Assignment in the month to an
\* existing shop succeeds whatever the shop already holds, raises the cell's
\* count by one, and carries the warning exactly from the (capacity+1)-th
\* car of the cell on.
C3_NeverBlocked ==
    \A c \in Cars, s \in Shops, m \in Dates :
        FindByCarMonth(assignments, c, m) = {} =>
            LET n == CountShopMonth(assignments, s, m)
                out == assign(State, c, s, m)
            IN  /\ out.res.err = "ok"
                /\ CountShopMonth(out.st.assignments, s, m) = n + 1
                /\ out.res.warning <=> (n + 1 >= capacity(s) + 1)

\* The (capacity+1)-th car has just been assigned to a cell, with a warning.
C3_Witness ==
    /\ Succeeded("assign")
    /\ res.warning
    /\ LET a == res.data[1]
       IN  CountShopMonth(assignments, a.shopId, a.month) = capacity(a.shopId) + 1

\* C4: right after a successful assign, its response carries the warning
\* exactly when GET /utilization reports the cell over capacity.
C4_WarningIffOver ==
    Succeeded("assign") =>
        LET a == res.data[1]
        IN  /\ a \in assignments
            /\ res.warning <=> utilization(State, a.shopId, a.month).isOverCapacity

\* An assign has just filled a cell to its capacity exactly: no warning.
C4_Witness ==
    /\ Succeeded("assign")
    /\ ~res.warning
    /\ LET a == res.data[1]
       IN  CountShopMonth(assignments, a.shopId, a.month) = capacity(a.shopId)

\* C5: a car is scheduled exactly when it has an Assignment in some month.
C5_StatusIffAssigned ==
    \A c \in Cars : carStatus[c] = "scheduled" <=> HasAssignment(c)

\* One of a car's two Assignments has just been removed by unassign, and the
\* car is still scheduled.
C5_Witness ==
    /\ Succeeded("unassign")
    /\ LET a == Top(undoStack).assignment
       IN  /\ Top(undoStack).type = "delete"
           /\ a \notin assignments
           /\ \E b \in assignments : b.carId = a.carId /\ b.month # a.month
           /\ carStatus[a.carId] = "scheduled"

\* C6: the undo stack never holds more than MAX_HISTORY actions, and after n
\* assigns in a row with nothing else served (every row ever created is
\* still there) it holds the Create actions of the last min(n, MAX_HISTORY)
\* rows, oldest first: after 51 assigns, those of rows 2..51.
OnlyAssignsServed == Cardinality(assignments) = nextId - 1

C6_HistoryCap ==
    /\ Len(undoStack) <= MAX_HISTORY
    /\ OnlyAssignsServed =>
           LET n == nextId - 1
               depth == IF n > MAX_HISTORY THEN MAX_HISTORY ELSE n
           IN  /\ Len(undoStack) = depth
               /\ \A i \in 1..depth :
                      LET id == n - depth + i
                      IN  undoStack[i] = HistoryAction("create", Row(id, 1, 1, id))

\* 51 assigns have been served: depth 50, the Create of row 1 evicted.
C6_Witness ==
    /\ OnlyAssignsServed
    /\ nextId = MAX_HISTORY + 2
    /\ Succeeded("assign")
    /\ Len(undoStack) = MAX_HISTORY
    /\ undoStack[1].assignment.id = 2

\* C7: in every state, the redo stack holding undone actions or not, a
\* successful assign or unassign leaves the redo stack empty, and a redo
\* served next fails with EmptyHistory.
C7_NewActionClearsRedo ==
    /\ \A c \in CarIds, s \in ShopIds, m \in Dates :
           LET out == assign(State, c, s, m)
           IN  out.res.err = "ok" =>
                   /\ out.st.redoStack = <<>>
                   /\ redo(out.st).res.err = "EmptyHistory"
    /\ \A id \in 1..(MaxId + 1) :
           LET out == unassign(State, id)
           IN  out.res.err = "ok" =>
                   /\ out.st.redoStack = <<>>
                   /\ redo(out.st).res.err = "EmptyHistory"

\* An assign has been served after an undo: the only action on record is the
\* creation of row 2, and row 1 is gone without a delete on record.
C7_Witness ==
    /\ Succeeded("assign")
    /\ res.data[1].id = 2
    /\ undoStack = <<HistoryAction("create", res.data[1])>>
    /\ assignments = {res.data[1]}
    /\ redoStack = <<>>

\* C8: undo moves exactly the top of the undo stack onto the redo stack and
\* keeps what the redo stack held; redo moves it back the same way.
C8_UndoRedoMoveTop ==
    /\ Len(undoStack) > 0 =>
           LET out == undo(State)
           IN  /\ out.st.undoStack = Pop(undoStack)
               /\ out.st.redoStack = Append(redoStack, Top(undoStack))
    /\ Len(redoStack) > 0 =>
           LET out == redo(State)
           IN  /\ out.st.redoStack = Pop(redoStack)
               /\ out.st.undoStack = Append(undoStack, Top(redoStack))

\* A second undo in a row has succeeded: the redo stack holds two actions.
C8_Witness ==
    /\ Succeeded("undo")
    /\ Len(redoStack) >= 2
    /\ res.redoStackSize = Len(redoStack)

\* C9: right after a successful assign, undo succeeds, removes exactly the
\* row the assign created, and leaves the car unscheduled when it holds no
\* other row and scheduled when it does.
C9_UndoAssign ==
    Succeeded("assign") =>
        LET a == res.data[1]
            out == undo(State)
        IN  /\ out.res.err = "ok"
            /\ out.st.assignments = assignments \ {a}
            /\ a \in assignments
            /\ out.st.carStatus =
                   [carStatus EXCEPT ![a.carId] =
                       IF \E b \in assignments : b.carId = a.carId /\ b # a
                       THEN "scheduled" ELSE "unscheduled"]

\* An assign has just given a car its second month: undoing it leaves the
\* car scheduled.
C9_Witness ==
    /\ Succeeded("assign")
    /\ \E b \in assignments : b.carId = res.data[1].carId /\ b # res.data[1]
    /\ undo(State).st.carStatus[res.data[1].carId] = "scheduled"

\* C10: after assign; undo; redo the ledger holds the row the assign created
\* (same id, car, shop and month) and the car is scheduled: whenever a redo
\* has just reapplied a Create, the row that action recorded is in the
\* ledger.
C10_RedoRestoresRow ==
    (Succeeded("redo") /\ Top(undoStack).type = "create") =>
        LET a == Top(undoStack).assignment
        IN  /\ a \in assignments
            /\ carStatus[a.carId] = "scheduled"

\* C11: right after a successful unassign, undo succeeds and adds exactly one
\* row, with the car, shop and month of the row the unassign deleted, and
\* the car is scheduled afterwards.
C11_UndoUnassign ==
    Succeeded("unassign") =>
        LET a == Top(undoStack).assignment
            out == undo(State)
        IN  /\ Top(undoStack).type = "delete"
            /\ a \notin assignments
            /\ out.res.err = "ok"
            /\ \E b \in out.st.assignments :
                   /\ b.carId = a.carId /\ b.shopId = a.shopId /\ b.month = a.month
                   /\ out.st.assignments = assignments \cup {b}
                   /\ b \notin assignments
            /\ out.st.carStatus = [carStatus EXCEPT ![a.carId] = "scheduled"]

\* An undo has just re-inserted the only row of a car: the snapshot on the
\* redo stack and a row of the same car, shop and month in the ledger.
C11_Witness ==
    /\ Succeeded("undo")
    /\ Top(redoStack).type = "delete"
    /\ LET a == Top(redoStack).assignment
       IN  /\ CountCar(assignments, a.carId) = 1
           /\ carStatus[a.carId] = "scheduled"
           /\ \E b \in assignments :
                  b.carId = a.carId /\ b.shopId = a.shopId /\ b.month = a.month

\* C12: with the undo stack empty undo fails with EmptyHistory, with the redo
\* stack empty redo does, and either leaves ledger, statuses, id sequence
\* and both stacks as they were.
C12_EmptyHistory ==
    /\ Len(undoStack) = 0 =>
           LET out == undo(State)
           IN  out.res.err = "EmptyHistory" /\ out.st = State
    /\ Len(redoStack) = 0 =>
           LET out == redo(State)
           IN  out.res.err = "EmptyHistory" /\ out.st = State

\* The only action on record has been undone: a further undo finds the undo
\* stack empty while the redo stack holds an action.
C12_Witness ==
    /\ Succeeded("undo")
    /\ Len(undoStack) = 0
    /\ Len(redoStack) = 1
    /\ undo(State).res.err = "EmptyHistory"

\* C13: an assign naming a car or a shop that has no row, and an unassign
\* naming an id that no Assignment has, fail with NotFound and leave ledger,
\* statuses, id sequence and both stacks as they were.
C13_NotFoundChangesNothing ==
    /\ \A c \in CarIds, s \in ShopIds, m \in Dates :
           (c \notin Cars \/ s \notin Shops) =>
               LET out == assign(State, c, s, m)
               IN  out.res.err = "NotFound" /\ out.st = State
    /\ \A id \in 1..(MaxId + 1) :
           FindById(assignments, id) = {} =>
               LET out == unassign(State, id)
               IN  out.res.err = "NotFound" /\ out.st = State

\* Rows exist and both stacks hold an action; a request for a missing shop
\* and one for a deleted row's id are turned down.
C13_Witness ==
    /\ assignments # {}
    /\ Len(undoStack) > 0
    /\ Len(redoStack) > 0
    /\ \E c \in Cars, m \in Dates :
           /\ FindByCarMonth(assignments, c, m) = {}
           /\ assign(State, c, MaxShop + 1, m).res.err = "NotFound"
    /\ \E id \in 1..(nextId - 1) : unassign(State, id).res.err = "NotFound"

\* The plans the properties of apply are stated for: those the scenarios hold
\* and some more, with a (carId, month) listed twice for one shop and for
\* two, an empty plan, and a shop that has no row.
AllPlans ==
    SamplePlans \cup
        { <<>>,
          <<Tuple(1, 1, 1), Tuple(1, 1, 1)>>,
          <<Tuple(1, 1, 2), Tuple(2, 1, 2), Tuple(1, 2, 2)>>,
          <<Tuple(2, 2, 2), Tuple(1, MaxShop + 1, 1)>> }

Range(seq) == {seq[i] : i \in DOMAIN seq}

\* C14: whenever an apply of a plan succeeds, an apply of the same plan
\* served right after it succeeds too, returns the empty list and leaves
\* ledger, statuses, id sequence and stacks as the first left them; the
\* plans include some that list a (carId, month) twice.
C14_ApplyIdempotent ==
    \A plan \in AllPlans :
        LET scenario == ScenarioData(TRUE, plan)
            first == apply(State, scenario)
            second == apply(first.st, scenario)
        IN  first.res.err = "ok" =>
                /\ second.res.err = "ok"
                /\ second.res.data = <<>>
                /\ second.st = first.st

\* The plan that lists car 2 twice for month 1 has just been applied to a
\* ledger holding none of it: two rows created, and applying it again
\* creates none.
C14_Witness ==
    /\ Succeeded("apply")
    /\ scenarios[1].valid
    /\ Len(scenarios[1].assignments) = 3
    /\ Len(res.data) = 2
    /\ Range(res.data) \subseteq assignments
    /\ apply(State, scenarios[1]).res.err = "ok"
    /\ apply(State, scenarios[1]).res.data = <<>>

\* C15: an apply that does not succeed leaves ledger, statuses, id sequence
\* and stacks as they were, and an apply of a plan naming a car that has no
\* row never succeeds, whatever tuples come before that one.
C15_ApplyAllOrNothing ==
    \A plan \in AllPlans :
        LET out == apply(State, ScenarioData(TRUE, plan))
        IN  /\ out.res.err # "ok" => out.st = State
            /\ (\E i \in DOMAIN plan : plan[i].carId \notin Cars) =>
                   out.res.err = "StoreError"

\* An apply has just failed on its second tuple after its first tuple had
\* been inserted inside the transaction: the first tuple's cell is free.
C15_Witness ==
    /\ res.op = "apply"
    /\ res.err = "StoreError"
    /\ scenarios[1].valid
    /\ Len(scenarios[1].assignments) = 2
    /\ LET t == scenarios[1].assignments[1]
       IN  /\ FindByCarMonth(assignments, t.carId, t.month) = {}
           /\ CanCreate(assignments, t.carId, t.shopId, t.month)

\* C16: right after an apply that created k > 0 rows, the redo stack is empty
\* and the top k actions of the undo stack (all of it when k exceeds the
\* cap) are the Create actions of those rows, in order.
C16_ApplyRecordsHistory ==
    (Succeeded("apply") /\ Len(res.data) > 0) =>
        LET k == Len(res.data)
            n == Len(undoStack)
            depth == IF k > MAX_HISTORY THEN MAX_HISTORY ELSE k
        IN  /\ redoStack = <<>>
            /\ n >= depth
            /\ \A i \in 1..depth :
                   undoStack[n - depth + i] =
                       HistoryAction("create", res.data[k - depth + i])

\* The tuples of a plan that apply does not skip on ledger A: those whose
\* (carId, month) neither A nor an earlier tuple of the plan holds.
NonSkipped(plan, A) ==
    {i \in DOMAIN plan :
        /\ FindByCarMonth(A, plan[i].carId, plan[i].month) = {}
        /\ \A j \in 1..(i - 1) :
               plan[j].carId # plan[i].carId \/ plan[j].month # plan[i].month}

\* C17: a successful apply keeps every row the ledger held, creates no row
\* for a tuple whose (carId, month) the ledger held (whatever the shop of
\* the row found), and returns exactly the rows it added: one per tuple not
\* skipped, with that tuple's car, shop and month.
C17_ApplySkipsExisting ==
    \A plan \in AllPlans :
        LET out == apply(State, ScenarioData(TRUE, plan))
            created == out.res.data
        IN  out.res.err = "ok" =>
                /\ assignments \subseteq out.st.assignments
                /\ Range(created) = out.st.assignments \ assignments
                /\ Len(created) = Cardinality(NonSkipped(plan, assignments))
                /\ \A i \in NonSkipped(plan, assignments) :
                       \E a \in Range(created) :
                           /\ a.carId = plan[i].carId
                           /\ a.shopId = plan[i].shopId
                           /\ a.month = plan[i].month
                /\ \A i \in DOMAIN plan :
                       FindByCarMonth(assignments, plan[i].carId, plan[i].month) # {} =>
                           \A a \in Range(created) :
                               a.carId # plan[i].carId \/ a.month # plan[i].month

\* An apply has just skipped the tuples of car 2, whose month-1 row names
\* another shop than the plan's first tuple for it, and created car 1's row.
C17_Witness ==
    /\ Succeeded("apply")
    /\ scenarios[1].valid
    /\ Len(scenarios[1].assignments) = 3
    /\ Len(res.data) = 1
    /\ res.data[1] \in assignments
    /\ LET t == scenarios[1].assignments[2]
       IN  \E a \in assignments :
               /\ a.carId = t.carId /\ a.month = t.month /\ a.shopId # t.shopId
               /\ a.id < res.data[1].id
               /\ a \notin Range(res.data)

(***************************************************************************)
(* Properties of evaluate, stated on the response of the request served     *)
(* last against counts taken from the ledger and the request themselves.    *)
(***************************************************************************)
Body == procs[1].plan
FitOf(s) == res.data[1].shops[s]

CommittedIn(s, k) ==
    Cardinality({a \in assignments : a.shopId = s /\ ISOMonth(a.month) = k})
ProposedIn(s, k) ==
    Cardinality({i \in DOMAIN Body : Body[i].shopId = s /\ StringMonth(Body[i].month) = k})
Touched(s) ==
    {ISOMonth(a.month) : a \in {x \in assignments : x.shopId = s}} \cup
        {StringMonth(Body[i].month) : i \in {x \in DOMAIN Body : Body[x].shopId = s}}
TotalIn(s, k) == CommittedIn(s, k) + ProposedIn(s, k)
MaxTotal(s) ==
    IF Touched(s) = {}
    THEN 0
    ELSE LET totals == {TotalIn(s, k) : k \in Touched(s)}
         IN  CHOOSE n \in totals : \A m \in totals : n >= m

\* C18: for every shop, the totalAssigned evaluate reports is the largest
\* committed+proposed count over the months touched for the shop (0 when
\* none is), and its status is red when that exceeds the capacity, else
\* yellow when it is at least 80 percent of the capacity, else green; a
\* shop with no month touched is green.
C18_StatusRule ==
    Succeeded("evaluate") =>
        \A s \in Shops :
            LET r == FitOf(s)
                maxTotal == MaxTotal(s)
            IN  /\ r.totalAssigned = maxTotal
                /\ r.status = IF maxTotal > capacity(s) THEN "red"
                              ELSE IF maxTotal * 100 >= 80 * capacity(s) THEN "yellow"
                              ELSE "green"
                /\ Touched(s) = {} => r.status = "green"

\* Shop 1 (capacity 5) is yellow on the 4 rows of its fuller month, having a
\* row in another month too, and shop 2, which nothing touches, is green.
C18_Witness ==
    /\ Succeeded("evaluate")
    /\ 1 \in Shops
    /\ FitOf(1).capacity = SmallCapacity
    /\ FitOf(1).totalAssigned = 4
    /\ FitOf(1).currentAssigned = 5
    /\ FitOf(1).status = "yellow"
    /\ Cardinality(Touched(1)) = 2
    /\ Touched(2) = {}
    /\ FitOf(2).status = "green"

\* The boundary of C19: a shop of capacity 50 with 40 committed rows and 10
\* proposed tuples in one month, and no month above 50.
AtBoundary(s, proposed) ==
    /\ capacity(s) = 50
    /\ \E k \in Touched(s) : CommittedIn(s, k) = 40 /\ ProposedIn(s, k) = proposed
    /\ \A k \in Touched(s) : TotalIn(s, k) <= 40 + proposed

\* C19 (as amended): at that boundary evaluate reports totalAssigned 50,
\* utilizationPercent 100 and status yellow.
C19_BoundaryYellow ==
    Succeeded("evaluate") =>
        \A s \in Shops :
            AtBoundary(s, 10) =>
                /\ FitOf(s).totalAssigned = 50
                /\ FitOf(s).utilizationPercent = 100 * 100
                /\ FitOf(s).status = "yellow"

\* C19 as stated: status green at that boundary.
C19_BoundaryGreen ==
    Succeeded("evaluate") =>
        \A s \in Shops :
            AtBoundary(s, 10) =>
                /\ FitOf(s).totalAssigned = 50
                /\ FitOf(s).utilizationPercent = 100 * 100
                /\ FitOf(s).status = "green"

\* evaluate has answered for capacity 50, 40 committed and 10 proposed.
C19_Witness ==
    /\ Succeeded("evaluate")
    /\ 1 \in Shops
    /\ AtBoundary(1, 10)
    /\ FitOf(1).capacity = BigCapacity
    /\ FitOf(1).currentAssigned = 40
    /\ FitOf(1).scenarioAssigned = 10
    /\ FitOf(1).totalAssigned = 50
    /\ FitOf(1).status # "red"

\* C20: for every shop the overload evaluate reports is maxTotal - capacity
\* when that is positive and 0 otherwise, it is positive exactly when the
\* status is red, and capacity 50 with 40 committed and 11 proposed in one
\* month gives totalAssigned 51, red, overload 1.
C20_Overload ==
    Succeeded("evaluate") =>
        \A s \in Shops :
            LET r == FitOf(s)
                maxTotal == MaxTotal(s)
            IN  /\ r.overload = IF maxTotal > capacity(s) THEN maxTotal - capacity(s) ELSE 0
                /\ r.overload > 0 <=> r.status = "red"
                /\ AtBoundary(s, 11) =>
                       r.totalAssigned = 51 /\ r.status = "red" /\ r.overload = 1

\* evaluate has answered for capacity 50, 40 committed and 11 proposed.
C20_Witness ==
    /\ Succeeded("evaluate")
    /\ 1 \in Shops
    /\ AtBoundary(1, 11)
    /\ FitOf(1).currentAssigned = 40
    /\ FitOf(1).scenarioAssigned = 11
    /\ FitOf(1).totalAssigned = 51
    /\ FitOf(1).overload = 1
    /\ FitOf(1).status = "red"

C22_EvaluateReadsOnly ==
    [][procs'[1].op = "evaluate" =>
           /\ assignments' = assignments
           /\ carStatus' = carStatus
           /\ scenarios' = scenarios
           /\ undoStack' = undoStack
           /\ redoStack' = redoStack]_vars

\* An evaluate of a non-empty body has been served on a ledger with rows,
\* history and a stored scenario.
C22_Witness ==
    /\ Succeeded("evaluate")
    /\ Len(Body) > 0
    /\ assignments # {}
    /\ Len(undoStack) = Cardinality(assignments)
    /\ scenarios[1].exists

\* C23: the response to an evaluate request is the response the same body
\* gets on the same ledger at any other time, in any zone.
C23_SameInputsSameOutput ==
    Succeeded("evaluate") =>
        \A now \in EvalNow : evaluate(State, Body, now).res = res

\* The months of a shop's Map in insertion order: those of its committed
\* rows in the order read, then those of the body's tuples.
KeysInOrder(s) ==
    LET mine == SelectSeq(RowsById(assignments), LAMBDA a : a.shopId = s)
        theirs == SelectSeq(Body, LAMBDA a : a.shopId = s)
    IN  MapKeys([i \in DOMAIN mine |-> ISOMonth(mine[i].month)] \o
                [i \in DOMAIN theirs |-> StringMonth(theirs[i].month)])

\* C24: for every shop, earliestSlot is the first month in insertion order
\* whose committed+proposed total is below the capacity, and the calendar
\* month after the current date's when there is none; it is never null.
C24_EarliestSlot ==
    Succeeded("evaluate") =>
        \A s \in Shops :
            LET keys == KeysInOrder(s)
                below == {i \in DOMAIN keys : TotalIn(s, keys[i]) < capacity(s)}
            IN  /\ FitOf(s).earliestSlot # NoSlot
                /\ FitOf(s).earliestSlot =
                       IF below # {}
                       THEN keys[CHOOSE i \in below : \A j \in below : i <= j]
                       ELSE ISOMonth(procs[1].n.date) + 1

(***************************************************************************)
(* Properties of the forecast, stated on the response of the request served *)
(* last.                                                                    *)
(***************************************************************************)
ForecastOf(s) == res.data[1][s]
Clock == procs[1].n
Horizon == IF procs[1].i = 0 THEN DefaultMonths ELSE procs[1].i

\* C25: for every shop, the average the forecast reports is the number of
\* rows it read for the shop over the number of distinct months among them
\* (0 with no row), to the nearest hundredth; it projects the N months that
\* follow the clock's month, one after the other, and every one of them
\* carries the average rounded to a whole number and the same status.
C25_ForecastAverage ==
    Succeeded("forecast") =>
        \A s \in Shops :
            LET f == ForecastOf(s)
                mine == {a \in historicalAssignments(State, Clock) : a.shopId = s}
                total == Cardinality(mine)
                size == Cardinality({ISOMonth(a.month) : a \in mine})
                off == f.avgMonthlyAssignments * size - total * 100
            IN  /\ size = 0 => f.avgMonthlyAssignments = 0
                /\ size > 0 => (2 * off <= size /\ 2 * off > -size)
                /\ Len(f.forecast) = Horizon
                /\ \A i \in DOMAIN f.forecast :
                       /\ f.forecast[i].month = ISOMonth(Clock.date) + i
                       /\ f.forecast[i].projected = f.forecast[1].projected
                       /\ f.forecast[i].status = f.forecast[1].status
                       /\ size = 0 => f.forecast[i].projected = 0
                       /\ size > 0 =>
                              LET d == f.forecast[i].projected * size - total
                              IN  2 * d <= size /\ 2 * d > -size

\* C26: a row in a month after the clock's, or more than WindowMonths months
\* before it, does not count: the forecast answers the same with the row
\* taken out of the ledger.
C26_ForecastWindow ==
    Succeeded("forecast") =>
        \A a \in assignments :
            (\/ ISOMonth(a.month) > ISOMonth(Clock.date)
             \/ ISOMonth(a.month) < ISOMonth(Clock.date) - WindowMonths) =>
                forecast([State EXCEPT !.assignments = @ \ {a}], procs[1].i, Clock).res.data
                    = res.data

\* The evaluator's name for a forecast status.
EvaluatorName(st) ==
    IF st = "over" THEN "red" ELSE IF st = "near" THEN "yellow" ELSE "green"

\* C27: on every count up to the size of the ledgers and every shop's
\* capacity, and on every projected period of a forecast answered, the
\* forecast status is over, near or good exactly when the evaluator's status
\* for the same count and capacity is red, yellow or green.
C27_ClassifiersAgree ==
    /\ \A s \in Shops, count \in 0..(MaxCommitted + MaxOtherMonth + 1) :
           EvaluatorName(forecastStatus(count, capacity(s))) = status(count, capacity(s))
    /\ Succeeded("forecast") =>
           \A s \in Shops, i \in 1..Horizon :
               LET e == ForecastOf(s).forecast[i]
               IN  /\ e.status \in {"over", "near", "good"}
                   /\ EvaluatorName(e.status) = status(e.projected, e.capacity)

\* A forecast has projected 4 cars a month for a shop of capacity 5: near,
\* where the evaluator says yellow.
C27_Witness ==
    /\ Succeeded("forecast")
    /\ 1 \in Shops
    /\ ForecastOf(1).forecast[1].capacity = SmallCapacity
    /\ ForecastOf(1).forecast[1].projected * 10 = SmallCapacity * 8
    /\ ForecastOf(1).forecast[1].status = "near"
    /\ status(ForecastOf(1).forecast[1].projected, SmallCapacity) = "yellow"

\* C28: every Assignment in the ledger is dated the first day of its month,
\* and so a car holds at most one Assignment in a calendar month.
C28_FirstOfMonth ==
    /\ \A a \in assignments : DayOfMonth(a.month) = 1
    /\ \A a, b \in assignments :
           (a.carId = b.carId /\ ISOMonth(a.month) = ISOMonth(b.month)) => a = b

\* A slot is an assign that has passed its duplicate check and has its
\* insert outstanding.
Inserting(p) == procs[p].op = "assign" /\ procs[p].pc = "create"

\* C29: when the insert of an assign takes effect and the ledger by then
\* holds an Assignment for its (carId, month), the request ends with the
\* store's error, and the ledger and both stacks are as before; when the
\* ledger holds none, the row is inserted and the request goes on.  Of two
\* assigns that are both past the duplicate check, the first insert is of
\* the second kind and the other of the first.
C29_RaceLoserRejected ==
    [][\A p \in Procs :
          (Inserting(p) /\ procs'[p] # procs[p]) =>
              IF FindByCarMonth(assignments, procs[p].carId, procs[p].month) # {}
              THEN /\ procs'[p].pc = "idle"
                   /\ procs'[p].res.op = "assign"
                   /\ procs'[p].res.err = "StoreError"
                   /\ assignments' = assignments
                   /\ undoStack' = undoStack
                   /\ redoStack' = redoStack
              ELSE /\ procs'[p].pc = "schedule"
                   /\ procs'[p].a.carId = procs[p].carId
                   /\ procs'[p].a.month = procs[p].month
                   /\ assignments' = assignments \cup {procs'[p].a}]_vars

\* Two assigns were the only requests; one has answered with its row and the
\* other with the store's error: one row in the ledger, one Create on the
\* undo stack.
C29_Witness ==
    /\ started = 2
    /\ \E p, q \in Procs :
           /\ procs[p].pc = "idle" /\ procs[q].pc = "idle"
           /\ procs[p].res.op = "assign" /\ procs[p].res.err = "ok"
           /\ procs[q].res.op = "assign" /\ procs[q].res.err = "StoreError"
           /\ assignments = {procs[p].res.data[1]}
           /\ undoStack = <<HistoryAction("create", procs[p].res.data[1])>>

\* No request is in flight, and every request begun so far was an assign or
\* an unassign that succeeded: each has pushed one action, and nothing has
\* been undone.
OnlyEditsServed ==
    /\ \A p \in Procs : procs[p].pc = "idle"
    /\ Len(undoStack) + Len(redoStack) = started

\* C30: the state left by assign and unassign requests, however they
\* arrived, is one that serving them one after the other leaves: a car is
\* scheduled exactly when it has an Assignment.
C30_Serialized ==
    OnlyEditsServed =>
        \A c \in Cars : carStatus[c] = "scheduled" <=> HasAssignment(c)

(***************************************************************************)
(* Properties of the history over long runs.                                *)
(***************************************************************************)
\* C32: a history request changes neither the ledger, the statuses nor a
\* stack; the sizes it reports are the lengths of the stacks, canUndo and
\* canRedo say whether they are positive, and served right after a
\* successful undo or redo it reports the sizes that response carried.
C32_HistoryPureRead ==
    [][res'.op = "history" =>
          /\ assignments' = assignments
          /\ nextId' = nextId
          /\ carStatus' = carStatus
          /\ undoStack' = undoStack
          /\ redoStack' = redoStack
          /\ LET h == res'.data[1]
             IN  /\ h.undoStackSize = Len(undoStack)
                 /\ h.redoStackSize = Len(redoStack)
                 /\ h.canUndo <=> h.undoStackSize > 0
                 /\ h.canRedo <=> h.redoStackSize > 0
                 /\ (res.op \in {"undo", "redo"} /\ res.err = "ok") =>
                        /\ h.undoStackSize = res.undoStackSize
                        /\ h.redoStackSize = res.redoStackSize]_vars

\* The history has been asked for after an undo on a full stack: one action
\* to redo, and one short of MAX_HISTORY to undo.
C32_Witness ==
    /\ Succeeded("history")
    /\ res.data[1].undoStackSize = MAX_HISTORY - 1
    /\ res.data[1].redoStackSize = 1
    /\ res.data[1].canUndo
    /\ res.data[1].canRedo
    /\ Len(undoStack) = MAX_HISTORY - 1
    /\ Len(redoStack) = 1

\* C33: the two stacks never hold more than MAX_HISTORY actions between
\* them.
C33_DepthsBounded ==
    Len(undoStack) + Len(redoStack) <= MAX_HISTORY

\* A redo has pushed the undo stack back to MAX_HISTORY actions.
C33_Witness ==
    /\ Succeeded("redo")
    /\ Len(undoStack) = MAX_HISTORY
    /\ Len(redoStack) = 0

(***************************************************************************)
(* Properties of undo and redo over several requests.                       *)
(***************************************************************************)
\* C34: an undo or a redo that ends with the store's error leaves both
\* stacks as they were before the request.
C34_FailedUndoKeepsStacks ==
    /\ LET out == undo(State)
       IN  out.res.err = "StoreError" =>
               /\ out.st.undoStack = undoStack
               /\ out.st.redoStack = redoStack
    /\ LET out == redo(State)
       IN  out.res.err = "StoreError" =>
               /\ out.st.undoStack = undoStack
               /\ out.st.redoStack = redoStack

\* C35: from every state, after a successful assign of a car to a month,
\* then undo and redo, a further undo succeeds and the car has no
\* Assignment in the month; and after the assign, an unassign of its row and
\* two undos, both undos have succeeded and the car has no Assignment in
\* the month.
C35_ActionsStayApplicable ==
    \A c \in Cars, s \in Shops, m \in Dates :
        LET a1 == assign(State, c, s, m)
            u1 == undo(a1.st)
            r1 == redo(u1.st)
            u2 == undo(r1.st)
            d1 == unassign(a1.st, a1.res.data[1].id)
            v1 == undo(d1.st)
            v2 == undo(v1.st)
        IN  a1.res.err = "ok" =>
                /\ u1.res.err = "ok"
                /\ r1.res.err = "ok"
                /\ u2.res.err = "ok"
                /\ FindByCarMonth(u2.st.assignments, c, m) = {}
                /\ d1.res.err = "ok"
                /\ v1.res.err = "ok"
                /\ v2.res.err = "ok"
                /\ FindByCarMonth(v2.st.assignments, c, m) = {}

\* n undos in a row, stopping at the first that fails.
RECURSIVE undoTimes(_, _)
undoTimes(S, n) ==
    IF n = 0
    THEN Outcome(TRUE, S)
    ELSE LET out == undo(S)
         IN  IF out.res.err # "ok" THEN Outcome(FALSE, out.st) ELSE undoTimes(out.st, n - 1)

\* n redos in a row, stopping at the first that fails.
RECURSIVE redoTimes(_, _)
redoTimes(S, n) ==
    IF n = 0
    THEN Outcome(TRUE, S)
    ELSE LET out == redo(S)
         IN  IF out.res.err # "ok" THEN Outcome(FALSE, out.st) ELSE redoTimes(out.st, n - 1)

\* The ledger as (carId, shopId, month) tuples.
Tuples(A) == {Tuple(a.carId, a.shopId, a.month) : a \in A}

\* The state has been reached from the initial one by successful assigns and
\* unassigns alone: every id the sequence has given out belongs to a Create
\* on the undo stack, and nothing is there to redo.
EditsFromEmptyHistory ==
    /\ redoStack = <<>>
    /\ Cardinality({i \in DOMAIN undoStack : undoStack[i].type = "create"}) = nextId - 1

\* C36: after n successful assigns and unassigns from the initial state, n
\* undos all succeed and leave the ledger empty and every car unscheduled,
\* as in the initial state; n redos then all succeed and leave the tuples of
\* the ledger and the statuses as they were after the sequence.
C36_UndoAllRedoAll ==
    EditsFromEmptyHistory =>
        LET n == Len(undoStack)
            back == undoTimes(State, n)
            forth == redoTimes(back.st, n)
        IN  /\ back.ok
            /\ Tuples(back.st.assignments) = {}
            /\ \A c \in Cars : back.st.carStatus[c] = "unscheduled"
            /\ forth.ok
            /\ Tuples(forth.st.assignments) = Tuples(assignments)
            /\ forth.st.carStatus = carStatus

(***************************************************************************)
(* Properties of requests in flight together, stated on the states where    *)
(* every request has been answered.                                         *)
(***************************************************************************)
Quiescent == \A p \in Procs : procs[p].pc = "idle"

\* The rows that a Create on the undo stack records: those an assign
\* inserted.
Recorded == {undoStack[i].assignment : i \in DOMAIN undoStack}

\* The plan of the scenario.
PlanOf == scenarios[1].assignments

\* Every slot's last request was an apply that got to its transaction, and
\* whatever else was served was an assign that succeeded and whose row is
\* still there.
AppliesDone ==
    /\ Quiescent
    /\ \A p \in Procs :
           procs[p].res.op = "apply" /\ procs[p].res.err \in {"ok", "StoreError"}
    /\ redoStack = <<>>
    /\ Len(undoStack) = started - Cardinality(Procs)
    /\ \A i \in DOMAIN undoStack :
           undoStack[i].type = "create" /\ undoStack[i].assignment \in assignments

\* C31: once applies of the plan that were in flight together have all been
\* answered, no (carId, month) of the plan holds two Assignments; the rows
\* the applies have left are rows of the plan; and either they have left
\* none, or every tuple of the plan whose (carId, month) no assign had taken
\* holds exactly one of them, which is the case whenever an apply has
\* answered with success.
C31_ConcurrentApply ==
    AppliesDone =>
        LET byApply == assignments \ Recorded
            free == {t \in Range(PlanOf) :
                        FindByCarMonth(Recorded, t.carId, t.month) = {}}
            whole == \A t \in free :
                         Cardinality(FindByCarMonth(byApply, t.carId, t.month)) = 1
        IN  /\ \A t \in Range(PlanOf) :
                   Cardinality(FindByCarMonth(assignments, t.carId, t.month)) <= 1
            /\ \A a \in byApply : Tuple(a.carId, a.shopId, a.month) \in Range(PlanOf)
            /\ byApply = {} \/ whole
            /\ (\E p \in Procs : procs[p].res.err = "ok") => whole

\* Two applies of the plan were the only requests: one has answered with the
\* two rows it created, the other with the store's error, and the ledger
\* holds the two rows.
C31_Witness ==
    /\ AppliesDone
    /\ started = 2
    /\ \E p, q \in Procs :
           /\ procs[p].res.err = "ok"
           /\ procs[q].res.err = "StoreError"
           /\ Len(procs[p].res.data) = 2
           /\ assignments = Range(procs[p].res.data)

\* C37: once every request has been answered, every car that holds an
\* Assignment is scheduled.
C37_AssignedCarsScheduled ==
    Quiescent => \A c \in Cars : HasAssignment(c) => carStatus[c] = "scheduled"

\* C38: two assigns were the only requests and both have put a row into the
\* same shop and month, which now holds more rows than the shop's capacity:
\* one of the two has answered with the warning.
C38_SomeoneWarned ==
    \A p, q \in Procs :
        (/\ p # q
         /\ Quiescent
         /\ started = 2
         /\ procs[p].res.op = "assign" /\ procs[p].res.err = "ok"
         /\ procs[q].res.op = "assign" /\ procs[q].res.err = "ok"
         /\ LET a == procs[p].res.data[1]
                b == procs[q].res.data[1]
            IN  /\ a.shopId = b.shopId
                /\ a.month = b.month
                /\ {a, b} \subseteq assignments
                /\ CountShopMonth(assignments, a.shopId, a.month) > capacity(a.shopId))
            => (procs[p].res.warning \/ procs[q].res.warning)

\* C39: once every request has been answered, the undo stack holds at most
\* one Delete action for a row.
C39_OneDeletePerRow ==
    Quiescent =>
        \A i, j \in DOMAIN undoStack :
            (/\ i # j
             /\ undoStack[i].type = "delete"
             /\ undoStack[j].type = "delete")
                => undoStack[i].assignment.id # undoStack[j].assignment.id

(***************************************************************************)
(* The evaluator against the committer.                                     *)
(***************************************************************************)
\* C40: when the scenario's plan names existing cars and shops only and an
\* apply of it succeeds, then for every shop and month the ledger after the
\* apply holds as many Assignments as the evaluator's tally of committed and
\* proposed entries for that shop and month before it.
C40_EvaluatePredictsApply ==
    LET scenario == FindScenario(1)
        plan == scenario.assignments
        out == apply(State, scenario)
    IN  (/\ scenario.exists
         /\ scenario.valid
         /\ \A t \in Range(plan) : t.carId \in Cars /\ t.shopId \in Shops
         /\ out.res.err = "ok") =>
            \A s \in Shops, k \in {ISOMonth(d) : d \in Dates} :
                monthlyTotal(assignments, plan, s, k)
                    = Cardinality({a \in out.st.assignments :
                                      a.shopId = s /\ ISOMonth(a.month) = k})
====
